---- MODULE Spec2Model ----
(***************************************************************************)
(* GlobalProtect SSL tunnel (gpst.c): the packet main loop, the getconfig  *)
(* negotiation and the reconnect path, as a state machine.                 *)
(***************************************************************************)
EXTENDS Integers, Sequences, FiniteSets, TLC

VARIABLES
    pc,               \* position of gpst_mainloop: "idle" between invocations
    ssl_fd,           \* vpninfo->ssl_fd: "open" or "closed" (-1)
    dtls_state,       \* vpninfo->dtls_state
    cstp_pkt,         \* vpninfo->cstp_pkt: TRUE when a receive buffer is held
    frame,            \* result of the last ssl_nonblock_read into cstp_pkt
    current_ssl_pkt,  \* vpninfo->current_ssl_pkt
    outgoing_queue,   \* vpninfo->outgoing_queue
    incoming_queue,   \* packets pushed on vpninfo->incoming_queue, in order
    quit_reason,      \* vpninfo->quit_reason
    work_done,        \* local work_done of the running invocation
    ret,              \* value returned by the last invocation
    now,              \* time(NULL)
    ssl_times,        \* vpninfo->ssl_times
    ip_info,          \* vpninfo->ip_info
    cstp_options,     \* vpninfo->cstp_options, head first
    cfg,              \* outcome of the last gpst_get_config call
    wire,             \* frames completely written to the TLS stream
    last_write,       \* the last ssl_nonblock_write call: packet, length,
                      \* result, whether it retried a stalled write, whether
                      \* the packet was freed after it
    inv,              \* bookkeeping of an invocation: write calls made, last
                      \* answer of the timer oracle
    hist,             \* history: packets queued, frames read, DPDs sent, ids
                      \* dequeued, payload lengths of the valid data frames read
    fn_call           \* a single call of one function: its name, its
                      \* arguments and, once it returned, its result

vars == <<pc, ssl_fd, dtls_state, cstp_pkt, frame, current_ssl_pkt,
          outgoing_queue, incoming_queue, quit_reason, work_done, ret, now,
          ssl_times, ip_info, cstp_options, cfg, wire, last_write, inv, hist,
          fn_call>>

----------------------------------------------------------------------------
(* Bounds of the model *)

MaxPkts == 2
MaxRx == 2
MaxDpd == 1
MaxTime == 1

----------------------------------------------------------------------------
(* Program constants *)

GPST_MAGIC == 439041101
ETHERTYPE_IPV4 == 2048
ETHERTYPE_DPD == 0
GPST_HDR_LEN == 16
EIO == 5
EINVAL == 22
EPERM == 1
EEXIST == 17
EPIPE == 32
EAGAIN == 11
DEFAULT_DPD == 10
REKEY_MARGIN == 60

UDP_HEADER_SIZE == 8
IPV4_HEADER_SIZE == 20
IPV6_HEADER_SIZE == 40
DEFAULT_BASE_MTU == 1406
MIN_BASE_MTU == 1280
TLS_RECORD_OVERHEAD == 13
MAX_SERVERS == 3

\* Strings are sequences of characters or of whole words; Null is the NULL
\* pointer, which no text equals.
Null == <<"NULL">>
NoReason == "none"


----------------------------------------------------------------------------
(* Server responses: an https result and a body that is NULL, an XML       *)
(* document or any other text                                              *)

Digits == <<"0", "1", "2", "3", "4", "5", "6", "7", "8", "9">>

IsDigit(ch) == \E d \in 1..10 : Digits[d] = ch

DigitVal(ch) == (CHOOSE d \in 1..10 : Digits[d] = ch) - 1

RECURSIVE atoi_digits(_, _)
atoi_digits(s, acc) ==
    IF s = <<>> \/ ~IsDigit(Head(s)) THEN acc
    ELSE atoi_digits(Tail(s), acc * 10 + DigitVal(Head(s)))

RECURSIVE atoi(_)
atoi(s) ==
    IF s = <<>> THEN 0
    ELSE IF Head(s) = " " THEN atoi(Tail(s))
    ELSE IF Head(s) = "-" THEN 0 - atoi_digits(Tail(s), 0)
    ELSE IF Head(s) = "+" THEN atoi_digits(Tail(s), 0)
    ELSE atoi_digits(s, 0)

El(name, text) == [name |-> name, text |-> text, members |-> <<>>]

Group(name, members) == [name |-> name, text |-> <<>>, members |-> members]

XmlDoc(root, status, children) ==
    [fmt |-> "xml", root |-> root, status |-> status, children |-> children,
     js |-> <<>>]

JsDoc(tokens) ==
    [fmt |-> "text", root |-> "", status |-> "", children |-> <<>>,
     js |-> tokens]

NullDoc ==
    [fmt |-> "null", root |-> "", status |-> "", children |-> <<>>,
     js |-> <<>>]

----------------------------------------------------------------------------
(* parse_javascript. The text is a sequence of tokens: the three literal   *)
(* prefixes, single characters (space, newline, quote, semicolon) and      *)
(* words of two or more other characters.                                  *)

SP == " "
NL == "\n"
QUOTE == "\""
SEMI == ";"
NUL == "NUL"
pre_status == "var respStatus = \""
pre_prompt == "var respMsg = \""
pre_inputStr == "thisForm.inputStr.value = \""

JsPrefixes == {pre_status, pre_prompt, pre_inputStr}
JsSingles == {SP, NL, QUOTE, SEMI}

\* words that strncmp(start, "Challenge", 8) and strncmp(start, "Error", 5) accept
ChallengeWords == {"Challenge", "Challeng", "Challenged"}
ErrorWords == {"Error", "Errors"}

JsAt(buf, i) == IF i >= 1 /\ i <= Len(buf) THEN buf[i] ELSE NUL

isspace(ch) == ch \in {SP, NL}

\* last character of a token, and the character before the last
JsLast(tok) ==
    IF tok \in JsPrefixes THEN QUOTE
    ELSE IF tok \in JsSingles THEN tok ELSE "x"

\* end[-1] and end[-2]
JsBack1(buf, e) == JsLast(JsAt(buf, e - 1))

JsBack2(buf, e) ==
    IF JsAt(buf, e - 1) \in JsPrefixes THEN SP
    ELSE IF JsAt(buf, e - 1) \in JsSingles THEN JsLast(JsAt(buf, e - 2))
    ELSE "x"

RECURSIVE JsSkipSpace(_, _)
JsSkipSpace(buf, i) ==
    IF isspace(JsAt(buf, i)) THEN JsSkipSpace(buf, i + 1) ELSE i

\* strchr(start, '\n'): 0 when there is none
RECURSIVE strchr_nl(_, _)
strchr_nl(buf, i) ==
    IF i > Len(buf) THEN 0
    ELSE IF buf[i] = NL THEN i ELSE strchr_nl(buf, i + 1)

\* number of characters in buf[a .. b-1]
RECURSIVE JsChars(_, _, _)
JsChars(buf, a, b) ==
    IF a >= b THEN 0
    ELSE (IF buf[a] \in JsSingles THEN 1 ELSE 2) + JsChars(buf, a + 1, b)

JsErr == [status |-> 0 - EINVAL, prompt |-> Null, inputStr |-> Null]

\* the line that starts at token `at` with prefix `pre`: its value and the
\* position of its newline, or ok = FALSE
JsLine(buf, at, pre, need2) ==
    LET start == at + 1
        end == strchr_nl(buf, start)
    IN  IF JsAt(buf, at) # pre \/ end = 0 THEN [ok |-> FALSE, end |-> 0, val |-> Null]
        ELSE IF JsBack1(buf, end) # SEMI \/ JsBack2(buf, end) # QUOTE
                \/ (need2 /\ JsChars(buf, start, end) < 2)
             THEN [ok |-> FALSE, end |-> 0, val |-> Null]
        ELSE [ok |-> TRUE, end |-> end,
              val |-> IF end - 3 >= start THEN SubSeq(buf, start, end - 3) ELSE <<>>]

parse_javascript(buf) ==
    LET l1 == JsLine(buf, JsSkipSpace(buf, 1), pre_status, FALSE)
        word == JsAt(buf, JsSkipSpace(buf, 1) + 1)
        status == IF word \in ChallengeWords THEN 0
                  ELSE IF word \in ErrorWords THEN 1 ELSE 0 - EINVAL
        l2 == JsLine(buf, JsSkipSpace(buf, l1.end), pre_prompt, TRUE)
        l3 == JsLine(buf, JsSkipSpace(buf, l2.end), pre_inputStr, TRUE)
    IN  IF ~l1.ok \/ status < 0 THEN JsErr
        ELSE IF ~l2.ok THEN JsErr
        ELSE IF ~l3.ok THEN JsErr
        ELSE IF JsAt(buf, JsSkipSpace(buf, l3.end)) # NUL THEN JsErr
        ELSE [status |-> status, prompt |-> l2.val, inputStr |-> l3.val]

\* xmlnode_get_text: 0 when the node has the name, else -EINVAL
xmlnode_get_text(node, name) == IF node.name = name THEN 0 ELSE 0 - EINVAL

\* add_option pushes (opt, val) at the head of cstp_options
add_option(options, opt, val) == <<[option |-> opt, value |-> val]>> \o options

----------------------------------------------------------------------------
(* filter_opts. Strings are sequences of characters; the result is the     *)
(* content of buf after the call.                                          *)

MAX(a, b) == IF a > b THEN a ELSE b

\* s[i], the terminating NUL at and past the end
CharAt(s, i) == IF i >= 1 /\ i <= Len(s) THEN s[i] ELSE NUL

\* strchr(s + i, ch) ? : s + strlen(s)
RECURSIVE strchr_or_end(_, _, _)
strchr_or_end(s, i, ch) ==
    IF i > Len(s) THEN Len(s) + 1
    ELSE IF s[i] = ch THEN i ELSE strchr_or_end(s, i + 1, ch)

\* !strncmp(a + i, b + j, n)
RECURSIVE strncmp_eq(_, _, _, _, _)
strncmp_eq(a, i, b, j, n) ==
    IF n = 0 THEN TRUE
    ELSE IF CharAt(a, i) # CharAt(b, j) THEN FALSE
    ELSE IF CharAt(a, i) = NUL THEN TRUE
    ELSE strncmp_eq(a, i + 1, b, j + 1, n - 1)

\* the inner loop over the names of incexc: the position it stops at, past
\* the end when no name matched
RECURSIVE FindName(_, _, _, _, _)
FindName(incexc, found, query, f, eq) ==
    IF found > Len(incexc) THEN found
    ELSE LET comma == strchr_or_end(incexc, found, ",")
         IN  IF strncmp_eq(incexc, found, query, f, MAX(comma - found, eq - f))
             THEN found
             ELSE FindName(incexc,
                           IF comma <= Len(incexc) THEN comma + 1 ELSE comma,
                           query, f, eq)

\* the two buf_append calls for the field query[f .. endf-1]
AppendField(buf, query, f, endf) ==
    (IF buf # <<>> /\ buf[Len(buf)] \notin {"?", "&"} THEN buf \o <<"&">> ELSE buf)
        \o SubSeq(query, f, endf - 1)

\* the outer loop from field position f on
RECURSIVE FilterFrom(_, _, _, _, _)
FilterFrom(buf, query, f, incexc, include) ==
    IF f > Len(query) THEN buf
    ELSE LET endf == strchr_or_end(query, f, "&")
             e == strchr_or_end(query, f, "=")
             eq == IF e > endf THEN endf ELSE e
             hit == FindName(incexc, 1, query, f, eq) <= Len(incexc)
             keep == (include # 0 /\ hit) \/ (include = 0 /\ ~hit)
         IN  FilterFrom(IF keep THEN AppendField(buf, query, f, endf) ELSE buf,
                        query, IF endf <= Len(query) THEN endf + 1 ELSE endf,
                        incexc, include)

filter_opts(buf, query, incexc, include) ==
    FilterFrom(buf, query, 1, incexc, include)

----------------------------------------------------------------------------
(* calculate_mtu *)

ESP_OVERHEAD == 78

calculate_mtu_NoClamp(reqmtu, basemtu, ti, family) ==
    LET b1 == IF (reqmtu = 0 \/ basemtu = 0) /\ ti.tcp_info /\ basemtu = 0
              THEN ti.pmtu ELSE basemtu
        b2 == IF (reqmtu = 0 \/ basemtu = 0) /\ ti.tcp_info /\ b1 = 0
              THEN (IF ti.rcv_mss < ti.snd_mss THEN ti.rcv_mss - TLS_RECORD_OVERHEAD
                    ELSE ti.snd_mss - TLS_RECORD_OVERHEAD)
              ELSE b1
        b3 == IF b2 = 0 /\ ti.maxseg THEN ti.mss - TLS_RECORD_OVERHEAD ELSE b2
        base_mtu == IF b3 = 0 THEN DEFAULT_BASE_MTU ELSE b3
    IN  IF reqmtu # 0 THEN reqmtu
        ELSE base_mtu - ESP_OVERHEAD - UDP_HEADER_SIZE
             - (IF family = "AF_INET6" THEN IPV6_HEADER_SIZE ELSE IPV4_HEADER_SIZE)

\* ti: what getsockopt reports, [tcp_info, pmtu, rcv_mss, snd_mss, maxseg, mss]
calculate_mtu(reqmtu, basemtu, ti, family) ==
    LET b1 == IF (reqmtu = 0 \/ basemtu = 0) /\ ti.tcp_info /\ basemtu = 0
              THEN ti.pmtu ELSE basemtu
        b2 == IF (reqmtu = 0 \/ basemtu = 0) /\ ti.tcp_info /\ b1 = 0
              THEN (IF ti.rcv_mss < ti.snd_mss THEN ti.rcv_mss - TLS_RECORD_OVERHEAD
                    ELSE ti.snd_mss - TLS_RECORD_OVERHEAD)
              ELSE b1
        b3 == IF b2 = 0 /\ ti.maxseg THEN ti.mss - TLS_RECORD_OVERHEAD ELSE b2
        b4 == IF b3 = 0 THEN DEFAULT_BASE_MTU ELSE b3
        base_mtu == IF b4 < MIN_BASE_MTU THEN MIN_BASE_MTU ELSE b4
    IN  IF reqmtu # 0 THEN reqmtu
        ELSE base_mtu - ESP_OVERHEAD - UDP_HEADER_SIZE
             - (IF family = "AF_INET6" THEN IPV6_HEADER_SIZE ELSE IPV4_HEADER_SIZE)

----------------------------------------------------------------------------
(* gpst_parse_config_xml, on v = [ip_info, cstp_options, ssl_times, urlpath] *)

NoIpInfo ==
    [addr |-> Null, netmask |-> Null, mtu |-> 0, domain |-> Null,
     dns |-> <<>>, nbns |-> <<>>, split_includes |-> <<>>]

\* the "Clear old options" block, free_split_routes included
ClearOldOptions(v) ==
    [v EXCEPT !.ip_info = NoIpInfo,
              !.ssl_times.rekey_method = "REKEY_NONE",
              !.cstp_options = <<>>]

\* the <member> children taken by a loop that stops after `limit` of them
RECURSIVE TakeMembers(_, _)
TakeMembers(members, limit) ==
    IF members = <<>> \/ limit = 0 THEN <<>>
    ELSE IF xmlnode_get_text(Head(members), "member") = 0
         THEN <<Head(members).text>> \o TakeMembers(Tail(members), limit - 1)
         ELSE TakeMembers(Tail(members), limit)

RECURSIVE AddOptions(_, _, _)
AddOptions(options, opt, vals) ==
    IF vals = <<>> THEN options
    ELSE AddOptions(add_option(options, opt, Head(vals)), opt, Tail(vals))

RECURSIVE PushRoutes_Append(_, _)
PushRoutes_Append(split_includes, routes) ==
    IF routes = <<>> THEN split_includes
    ELSE PushRoutes_Append(split_includes \o <<Head(routes)>>, Tail(routes))

\* each route is linked in at the head of ip_info.split_includes
RECURSIVE PushRoutes(_, _)
PushRoutes(split_includes, routes) ==
    IF routes = <<>> THEN split_includes
    ELSE PushRoutes(<<Head(routes)>> \o split_includes, Tail(routes))

ParseChild(v, node, t) ==
    IF xmlnode_get_text(node, "ip-address") = 0 THEN
        [v EXCEPT !.ip_info.addr = node.text,
                  !.cstp_options = add_option(@, "ipaddr", node.text)]
    ELSE IF xmlnode_get_text(node, "netmask") = 0 THEN
        [v EXCEPT !.ip_info.netmask = node.text,
                  !.cstp_options = add_option(@, "netmask", node.text)]
    ELSE IF xmlnode_get_text(node, "mtu") = 0 THEN
        [v EXCEPT !.ip_info.mtu = atoi(node.text)]
    ELSE IF xmlnode_get_text(node, "ssl-tunnel-url") = 0 THEN
        [v EXCEPT !.urlpath = node.text]
    ELSE IF xmlnode_get_text(node, "timeout") = 0 THEN
        [v EXCEPT !.ssl_times.last_rekey = t,
                  !.ssl_times.rekey = atoi(node.text) - REKEY_MARGIN,
                  !.ssl_times.rekey_method = "REKEY_TUNNEL"]
    ELSE IF xmlnode_get_text(node, "gw-address") = 0 THEN v
    ELSE IF node.name = "dns" THEN
        LET vals == TakeMembers(node.members, MAX_SERVERS)
        IN  [v EXCEPT !.ip_info.dns = vals \o SubSeq(@, Len(vals) + 1, Len(@)),
                      !.cstp_options = AddOptions(@, "DNS", vals)]
    ELSE IF node.name = "wins" THEN
        LET vals == TakeMembers(node.members, MAX_SERVERS)
        IN  [v EXCEPT !.ip_info.nbns = vals \o SubSeq(@, Len(vals) + 1, Len(@)),
                      !.cstp_options = AddOptions(@, "WINS", vals)]
    ELSE IF node.name = "dns-suffix" THEN
        LET vals == TakeMembers(node.members, 1)
        IN  IF vals = <<>> THEN v
            ELSE [v EXCEPT !.ip_info.domain = vals[1],
                           !.cstp_options = add_option(@, "search", vals[1])]
    ELSE IF node.name = "access-routes" THEN
        LET vals == TakeMembers(node.members, Len(node.members))
        IN  [v EXCEPT !.ip_info.split_includes = PushRoutes(@, vals),
                      !.cstp_options = AddOptions(@, "split-include", vals)]
    ELSE v

RECURSIVE ParseChildren(_, _, _)
ParseChildren(v, nodes, t) ==
    IF nodes = <<>> THEN v
    ELSE ParseChildren(ParseChild(v, Head(nodes), t), Tail(nodes), t)

\* the DPD default and keepalive = dpd
SetDpd(v) ==
    LET dpd == IF v.ssl_times.dpd = 0 THEN DEFAULT_DPD ELSE v.ssl_times.dpd
    IN  [v EXCEPT !.ssl_times.dpd = dpd, !.ssl_times.keepalive = dpd]

\* [result, v]
gpst_parse_config_xml(v, doc, t) ==
    IF doc.root # "response" THEN [result |-> 0 - EINVAL, v |-> v]
    ELSE [result |-> 0,
          v |-> SetDpd(ParseChildren(ClearOldOptions(v), doc.children, t))]

----------------------------------------------------------------------------
(* gpst_xml_or_error with xml_cb = gpst_parse_config_xml.                  *)
(* Returns [result, v, parsed, prompt, inputStr]; parsed tells whether the *)
(* callback replaced the option list.                                      *)

NoSuchGateway ==
    {<<"GlobalProtect gateway does not exist">>,
     <<"GlobalProtect portal does not exist">>}
InvalidCookie == <<"Invalid authentication cookie">>

XmlOut(result, v, parsed, prompt, inputStr) ==
    [result |-> result, v |-> v, parsed |-> parsed, prompt |-> prompt,
     inputStr |-> inputStr]

\* the text of the first <error> child, Null when there is none
RECURSIVE FirstError(_)
FirstError(nodes) ==
    IF nodes = <<>> THEN Null
    ELSE IF xmlnode_get_text(Head(nodes), "error") = 0 THEN Head(nodes).text
    ELSE FirstError(Tail(nodes))

\* the "out:" block: the result for an <error> text
ErrorResult(err) ==
    IF err \in NoSuchGateway THEN 0 - EEXIST
    ELSE IF err = InvalidCookie THEN 0 - EPERM
    ELSE 0 - EINVAL

\* the branch taken when the body is not XML
JsOutcome(v, js, want_prompt) ==
    IF js.status = 1 THEN XmlOut(1, v, FALSE, Null, Null)
    ELSE IF js.status = 0 THEN
        IF want_prompt THEN XmlOut(0 - EAGAIN, v, FALSE, js.prompt, js.inputStr)
        ELSE XmlOut(0, v, FALSE, Null, Null)
    ELSE XmlOut(js.status, v, FALSE, Null, Null)

gpst_xml_or_error(v, result, doc, want_prompt, t) ==
    IF result < 0 THEN XmlOut(result, v, FALSE, Null, Null)
    ELSE IF doc.fmt = "null" THEN XmlOut(0 - EINVAL, v, FALSE, Null, Null)
    ELSE IF doc.fmt # "xml" THEN JsOutcome(v, parse_javascript(doc.js), want_prompt)
    ELSE IF doc.root = "response" /\ doc.status = "error" THEN
        IF FirstError(doc.children) # Null
        THEN XmlOut(ErrorResult(FirstError(doc.children)), v, FALSE, Null, Null)
        ELSE XmlOut(result, v, FALSE, Null, Null)
    ELSE LET cb == gpst_parse_config_xml(v, doc, t)
         IN  XmlOut(cb.result, cb.v, cb.result = 0, Null, Null)

----------------------------------------------------------------------------
(* gpst_get_config. env = [reqmtu, basemtu, family, dangling]; resp =      *)
(* [result, doc]; ti = the TCP diagnostics; ub = what the build does where *)
(* the C code has undefined behaviour.                                     *)
(* Returns [result, v, old_freed, dangling, crashed].                      *)

CfgOut(result, v, old_freed, dangling, crashed) ==
    [result |-> result, v |-> v, old_freed |-> old_freed,
     dangling |-> dangling, crashed |-> crashed]

\* strcmp(old_netmask, netmask) # 0; undefined when netmask is NULL
NetmaskDiffers(old_netmask, netmask, ub) ==
    IF netmask = Null THEN ub = "differ" ELSE old_netmask # netmask

\* the checks after a response was accepted, then the "out:" label, where
\* free_optlist(old_cstp_opts) runs
PostChecks(old, x, env, ti, ub) ==
    LET mtu == IF x.v.ip_info.mtu = 0
               THEN calculate_mtu(env.reqmtu, env.basemtu, ti, env.family)
               ELSE x.v.ip_info.mtu
        v == [x.v EXCEPT !.ip_info.mtu = mtu]
        \* the list freed at out: is still the current one, or was freed before
        stale == ~x.parsed /\ v.cstp_options # <<>>
        twice == env.dangling
    IN  IF twice /\ ub = "crash" THEN CfgOut(0, v, TRUE, TRUE, TRUE)
        ELSE IF v.ip_info.addr = Null THEN CfgOut(0 - EINVAL, v, TRUE, stale, FALSE)
        ELSE IF old.ip_info.addr # Null /\ old.ip_info.addr # v.ip_info.addr
             THEN CfgOut(0 - EINVAL, v, TRUE, stale, FALSE)
        ELSE IF old.ip_info.netmask # Null /\ v.ip_info.netmask = Null /\ ub = "crash"
             THEN CfgOut(0, v, FALSE, env.dangling, TRUE)
        ELSE IF old.ip_info.netmask # Null
                /\ NetmaskDiffers(old.ip_info.netmask, v.ip_info.netmask, ub)
             THEN CfgOut(0 - EINVAL, v, TRUE, stale, FALSE)
        ELSE CfgOut(0, v, TRUE, stale, FALSE)

gpst_get_config(v, env, resp, ti, ub, t) ==
    IF resp.result < 0 THEN CfgOut(resp.result, v, FALSE, env.dangling, FALSE)
    ELSE LET x == gpst_xml_or_error(v, resp.result, resp.doc, FALSE, t)
         IN  IF x.result # 0 THEN CfgOut(x.result, x.v, FALSE, env.dangling, FALSE)
             ELSE PostChecks(v, x, env, ti, ub)

----------------------------------------------------------------------------
(* gpst_connect and gpst_setup. tun = what the gateway does with the       *)
(* GET-tunnel request.                                                     *)

TunnelAnswers == {"open_failed", "START_TUNNEL", "closed", "other", "read_error"}

\* [ret, ssl_fd, ssl_times]
gpst_connect(times, tun, t) ==
    IF tun = "open_failed" THEN
        [ret |-> 0 - EIO, ssl_fd |-> "closed", ssl_times |-> times]
    ELSE IF tun = "read_error" THEN
        [ret |-> 0 - EINVAL, ssl_fd |-> "open", ssl_times |-> times]
    ELSE IF tun = "START_TUNNEL" THEN
        [ret |-> 0, ssl_fd |-> "open",
         ssl_times |-> [times EXCEPT !.last_rekey = t, !.last_rx = t,
                                         !.last_tx = t]]
    ELSE IF tun = "closed" THEN
        [ret |-> 0 - EPIPE, ssl_fd |-> "closed", ssl_times |-> times]
    ELSE [ret |-> 0 - EINVAL, ssl_fd |-> "closed", ssl_times |-> times]

\* [ret, ssl_fd, c] with c the outcome of gpst_get_config
gpst_setup(v, env, fd, resp, ti, ub, tun, t) ==
    LET c == gpst_get_config(v, env, resp, ti, ub, t)
        k == gpst_connect(c.v.ssl_times, tun, t)
    IN  IF c.crashed \/ c.result # 0
        THEN [ret |-> c.result, ssl_fd |-> fd, c |-> c]
        ELSE [ret |-> k.ret, ssl_fd |-> k.ssl_fd,
              c |-> [c EXCEPT !.v.ssl_times = k.ssl_times]]

\* ssl_reconnect: drop the socket, then negotiate and open the tunnel again
ssl_reconnect(v, env, resp, ti, ub, tun, t) ==
    gpst_setup(v, env, "closed", resp, ti, ub, tun, t)

----------------------------------------------------------------------------
(* Packets *)

ZeroHdr == [magic |-> 0, ethertype |-> 0, plen |-> 0, one |-> 0, zero |-> 0]

NullPkt == [id |-> 0 - 1, len |-> 0, hdr |-> ZeroHdr]

\* the static DPD sentinel: the magic, then zeros
dpd_pkt == [id |-> 0, len |-> 0, hdr |-> [ZeroHdr EXCEPT !.magic = GPST_MAGIC]]

\* the header stored into a dequeued packet
StoreHeader(this) ==
    [this EXCEPT !.hdr = [magic |-> GPST_MAGIC, ethertype |-> ETHERTYPE_IPV4,
                          plen |-> this.len % 65536, one |-> 1, zero |-> 0]]

\* what ssl_nonblock_write is given: the header address and len + 16
WriteCall(pkt) == [pkt |-> pkt, off |-> 0, len |-> pkt.len + GPST_HDR_LEN]

----------------------------------------------------------------------------
(* Inputs of the main loop *)

PayloadLens == {1, 2}

FlagWords == {<<1, 0>>, <<0, 0>>, <<0, 1>>}

Frame(len, magic, ethertype, plen, flags) ==
    [len |-> len, magic |-> magic, ethertype |-> ethertype, plen |-> plen,
     one |-> flags[1], zero |-> flags[2]]

NoData == Frame(0, 0, 0, 0, <<0, 0>>)

\* what ssl_nonblock_read can return: nothing, an error, fewer than 16
\* bytes, or 16 bytes and more with any header
ReadResults ==
    {NoData, Frame(0 - EIO, 0, 0, 0, <<0, 0>>), Frame(8, 0, 0, 0, <<0, 0>>)}
    \cup {Frame(GPST_HDR_LEN + n, m, e, p, fl) :
              n \in {0, 1}, m \in {GPST_MAGIC, 0},
              e \in {ETHERTYPE_DPD, ETHERTYPE_IPV4, 34525}, p \in {0, 1},
              fl \in FlagWords}

\* the read results drawn while the outbound path is explored: nothing, or
\* an error
LoopReadResults == {NoData, Frame(0 - EIO, 0, 0, 0, <<0, 0>>)}

\* what ssl_nonblock_write(buf, n) can return
WriteResults(n) == {0 - EIO, 0, n \div 2, n}

KaActions == {"KA_NONE", "KA_KEEPALIVE", "KA_DPD", "KA_DPD_DEAD", "KA_REKEY"}
StalledActions == {"KA_NONE", "KA_DPD_DEAD", "KA_REKEY"}

\* the build's behaviour where the C code is undefined
UbOutcomes == {"crash", "differ", "equal"}

\* a frame with the right magic, bytes read = 16 + payload_len and the IPv4
\* ethertype (wire format of the header comment)
ValidDataFrame(f) ==
    /\ f.len >= GPST_HDR_LEN
    /\ f.magic = GPST_MAGIC
    /\ f.len = GPST_HDR_LEN + f.plen
    /\ f.ethertype = ETHERTYPE_IPV4

----------------------------------------------------------------------------
(* Decisions of gpst_mainloop *)

ClassifyFrame_LengthFirst(f) ==
    IF f.len = 0 THEN "nodata"
    ELSE IF f.len < 0 THEN "error"
    ELSE IF f.len < GPST_HDR_LEN THEN "short"
    ELSE IF f.len # GPST_HDR_LEN + f.plen THEN "mismatch"
    ELSE IF f.magic # GPST_MAGIC THEN "unknown"
    ELSE IF f.ethertype = ETHERTYPE_DPD THEN "dpd"
    ELSE IF f.ethertype = ETHERTYPE_IPV4 THEN "data"
    ELSE "unknown_type"

ClassifyFrame_NoLength(f) ==
    IF f.len = 0 THEN "nodata"
    ELSE IF f.len < 0 THEN "error"
    ELSE IF f.len < GPST_HDR_LEN THEN "short"
    ELSE IF f.magic # GPST_MAGIC THEN "unknown"
    ELSE IF f.ethertype = ETHERTYPE_DPD THEN "dpd"
    ELSE IF f.ethertype = ETHERTYPE_IPV4 THEN "data"
    ELSE "unknown_type"

\* the checks on a read result, in the order of the code
ClassifyFrame(f) ==
    IF f.len = 0 THEN "nodata"
    ELSE IF f.len < 0 THEN "error"
    ELSE IF f.len < GPST_HDR_LEN THEN "short"
    ELSE IF f.magic # GPST_MAGIC THEN "unknown"
    ELSE IF f.len # GPST_HDR_LEN + f.plen THEN "mismatch"
    ELSE IF f.ethertype = ETHERTYPE_DPD THEN "dpd"
    ELSE IF f.ethertype = ETHERTYPE_IPV4 THEN "data"
    ELSE "unknown_type"

UpdatesLastRx_Early(kind) == kind \in {"mismatch", "dpd", "data", "unknown_type"}

UpdatesLastRx_KnownOnly(kind) == kind \in {"dpd", "data"}

\* frames for which the code reaches last_rx = time(NULL)
UpdatesLastRx(kind) == kind \in {"dpd", "data", "unknown_type"}

\* queue_packet appends at the tail
queue_packet(q, pkt) == Append(q, pkt)

AfterReadLoop_Skip(cur) == "keepalive"

\* the packet at line 714: a held packet is written before anything else
AfterReadLoop(cur) == IF cur # NullPkt THEN "write" ELSE "keepalive"

WriteOutcome_StallDone(n, r) ==
    IF r < 0 THEN "error"
    ELSE IF r = 0 THEN "done"
    ELSE IF r # n THEN "short"
    ELSE "done"

WriteOutcome_ShortDone(n, r) ==
    IF r < 0 THEN "error"
    ELSE IF r = 0 THEN "stalled"
    ELSE "done"

\* the result of ssl_nonblock_write for a call of n bytes
WriteOutcome(n, r) ==
    IF r < 0 THEN "error"
    ELSE IF r = 0 THEN "stalled"
    ELSE IF r # n THEN "short"
    ELSE "done"

StalledNext_Break(ka) ==
    IF ka \in {"KA_REKEY", "KA_DPD_DEAD"} THEN "reconnect" ELSE "keepalive"

FreesPacket_Any(pkt) == TRUE

\* "Don't free the 'special' packets": a written packet is freed unless it
\* is the DPD sentinel
FreesPacket(pkt) == pkt # dpd_pkt

\* the switch on ka_stalled_action
StalledNext(ka) ==
    IF ka \in {"KA_REKEY", "KA_DPD_DEAD"} THEN "reconnect" ELSE "return"

\* the switch on keepalive_action
KeepaliveBranch(ka, dtls, q) ==
    IF ka \in {"KA_REKEY", "KA_DPD_DEAD"} THEN "reconnect"
    ELSE IF ka = "KA_KEEPALIVE" THEN
        IF dtls # "DTLS_CONNECTED" /\ q # <<>> THEN "queue" ELSE "dpd"
    ELSE IF ka = "KA_DPD" THEN "dpd"
    ELSE "queue"

\* dequeue_packet takes the head
dequeue_packet(q) == [pkt |-> Head(q), rest |-> Tail(q)]

\* the value returned after ssl_reconnect returned r
ReconnectReturn(r) == IF r # 0 THEN r ELSE 1

ReconnectQuit_Keep(r, reason) == reason

\* quit_reason after ssl_reconnect returned r
ReconnectQuit(r, reason) == IF r # 0 THEN "GPST reconnect failed" ELSE reason

----------------------------------------------------------------------------
(* Server responses and OS diagnostics used as inputs *)

Resp(result, doc) == [result |-> result, doc |-> doc]

AddrA == <<"10.0.0.2">>
AddrB == <<"10.0.0.3">>
MaskA == <<"255.255.255.0">>
MaskB == <<"255.255.0.0">>

ChallengeScript ==
    <<pre_status, "Challenge", QUOTE, SEMI, NL,
      pre_prompt, "OTP?", QUOTE, SEMI, NL,
      pre_inputStr, "abc", QUOTE, SEMI, NL>>

ConfigXml(addr, netmask) ==
    XmlDoc("response", "",
           <<El("ip-address", addr), El("netmask", netmask), El("mtu", <<"0">>),
             El("timeout", <<"1", "8", "0", "0">>)>>)

\* the responses gpst_setup draws from before the main loop starts
InitialResponses == {Resp(0 - EIO, NullDoc), Resp(200, ConfigXml(AddrA, MaskA))}

\* the responses the main loop's reconnects draw from
LoopResponses ==
    {Resp(0 - EIO, NullDoc), Resp(200, ConfigXml(AddrA, MaskA)),
     Resp(200, ConfigXml(AddrB, MaskA)), Resp(200, JsDoc(ChallengeScript))}

NoTcpInfo ==
    [tcp_info |-> FALSE, pmtu |-> 0, rcv_mss |-> 0, snd_mss |-> 0,
     maxseg |-> FALSE, mss |-> 0]

----------------------------------------------------------------------------
(* The session: gpst_setup, then gpst_mainloop invoked by the outer loop   *)

V == [ip_info |-> ip_info, cstp_options |-> cstp_options,
      ssl_times |-> ssl_times, urlpath |-> cfg.urlpath]

NoInv == [writes |-> 0, ka |-> "none"]

InitTimes ==
    [last_rx |-> 0, last_tx |-> 0, last_rekey |-> 0, dpd |-> 0,
     keepalive |-> 0, rekey |-> 0, rekey_method |-> "REKEY_NONE"]

InitCfg ==
    [reqmtu |-> 0, basemtu |-> 0, family |-> "AF_INET",
     urlpath |-> <<"/ssl-tunnel-connect.sslvpn">>, result |-> 0,
     setup |-> 0, old_freed |-> FALSE, dangling |-> FALSE, crashed |-> FALSE]

\* no function is being called on its own
NoCall == [fn |-> "none", arg |-> <<>>, done |-> FALSE, out |-> <<>>]

InitLoop ==
    /\ ssl_fd = "closed"
    /\ dtls_state = "DTLS_NOSECRET"
    /\ cstp_pkt = FALSE
    /\ frame = NoData
    /\ current_ssl_pkt = NullPkt
    /\ outgoing_queue = <<>>
    /\ incoming_queue = <<>>
    /\ quit_reason = NoReason
    /\ work_done = 0
    /\ ret = 0
    /\ wire = <<>>
    /\ last_write = [pkt |-> NullPkt, off |-> 0, len |-> 0, ret |-> 0 - 1,
                     retried |-> FALSE, freed |-> FALSE]
    /\ inv = NoInv
    /\ hist = [queued |-> 0, rx |-> 0, dpd |-> 0, deq |-> <<>>, valid |-> <<>>]

Init ==
    /\ InitLoop
    /\ fn_call = NoCall
    /\ pc = "setup"
    /\ now = 0
    /\ ssl_times = InitTimes
    /\ ip_info = NoIpInfo
    /\ cstp_options = <<>>
    /\ cfg = InitCfg

\* the gateway's answers to GET-tunnel drawn by the session
LoopTunnelAnswers == {"START_TUNNEL", "closed", "read_error"}

\* the outcomes of undefined behaviour that matter for this call: crash and
\* differ are drawn only where they change what gpst_get_config does
UbChoices(resp) ==
    {ub \in UbOutcomes :
        \/ ub = "equal"
        \/ gpst_get_config(V, cfg, resp, NoTcpInfo, ub, now)
             # gpst_get_config(V, cfg, resp, NoTcpInfo, "equal", now)}

\* the tunnel is opened only after a successful negotiation
TunChoices(resp, ub) ==
    LET c == gpst_get_config(V, cfg, resp, NoTcpInfo, ub, now)
    IN  IF c.crashed \/ c.result # 0 THEN {"START_TUNNEL"} ELSE LoopTunnelAnswers

\* the state a gpst_get_config outcome c leaves; r is what gpst_setup or
\* ssl_reconnect returned
ApplyConfig(c, r) ==
    /\ ip_info' = c.v.ip_info
    /\ cstp_options' = c.v.cstp_options
    /\ ssl_times' = c.v.ssl_times
    /\ cfg' = [cfg EXCEPT !.urlpath = c.v.urlpath, !.result = c.result,
                          !.setup = r,
                          !.old_freed = c.old_freed, !.dangling = c.dangling,
                          !.crashed = c.crashed]

\* work_done and the bookkeeping are locals of an invocation: they end with
\* it, and past do_reconnect work_done is not read again
Locals(nextpc, wd, bk) ==
    /\ work_done' = IF nextpc \in {"idle", "reconnect"} THEN 0 ELSE wd
    /\ inv' = IF nextpc = "idle" THEN NoInv
              ELSE IF nextpc = "reconnect" THEN [bk EXCEPT !.writes = 0]
              ELSE bk

Setup ==
    /\ pc = "setup"
    /\ \E resp \in InitialResponses :
       \E ub \in UbChoices(resp) :
       \E tun \in TunChoices(resp, ub) :
       \E r \in {gpst_setup(V, cfg, ssl_fd, resp, NoTcpInfo, ub, tun, now)} :
             /\ ApplyConfig(r.c, r.ret)
             /\ ssl_fd' = r.ssl_fd
             /\ ret' = r.ret
             /\ pc' = IF r.c.crashed THEN "crashed"
                      ELSE IF r.ret # 0 THEN "failed" ELSE "idle"
    /\ UNCHANGED fn_call
    /\ UNCHANGED <<dtls_state, cstp_pkt, frame, current_ssl_pkt, outgoing_queue,
                   incoming_queue, quit_reason, work_done, now, wire,
                   last_write, inv, hist>>

\* the outer loop calls gpst_mainloop while no quit_reason is set
Enter ==
    /\ pc = "idle"
    /\ quit_reason = NoReason
    /\ pc' = IF ssl_fd = "closed" THEN "reconnect" ELSE "read"
    /\ work_done' = 0
    /\ inv' = NoInv
    /\ UNCHANGED fn_call
    /\ UNCHANGED <<ssl_fd, dtls_state, cstp_pkt, frame, current_ssl_pkt,
                   outgoing_queue, incoming_queue, quit_reason, ret, now,
                   ssl_times, ip_info, cstp_options, cfg, wire, last_write, hist>>

\* one pass of the while (1) read loop, the read result drawn from `results`,
\* at most `limit` frames read in a run
Read(results, limit) ==
    /\ pc = "read"
    /\ \E alloc \in BOOLEAN, f \in results, ub \in {"crash", "equal"} :
         LET kind == ClassifyFrame(f)
             anomalous == f.one # 1 \/ f.zero # 0
             npc == IF kind = "nodata" THEN AfterReadLoop(current_ssl_pkt)
                    ELSE IF kind = "error" THEN "reconnect"
                    ELSE IF kind \in {"short", "unknown", "unknown_type"}
                         THEN "idle"
                    ELSE IF kind = "data" /\ anomalous /\ ub = "crash"
                         THEN "crashed"
                    ELSE "read"
         IN  /\ cstp_pkt => alloc
             /\ (alloc /\ kind \notin {"nodata", "error"}) => hist.rx < limit
             /\ (kind = "data" /\ anomalous) \/ ub = "equal"
             /\ IF ~alloc
                THEN /\ pc' = AfterReadLoop(current_ssl_pkt)
                     /\ UNCHANGED <<cstp_pkt, frame, incoming_queue, quit_reason,
                                    work_done, inv, ret, ssl_times, hist>>
                ELSE /\ frame' = f
                     /\ hist' = [hist EXCEPT
                                   !.rx = IF kind \in {"nodata", "error"}
                                          THEN @ ELSE @ + 1,
                                   !.valid = IF ValidDataFrame(f)
                                             THEN Append(@, f.plen) ELSE @]
                     /\ cstp_pkt' = (kind # "data")
                     /\ ssl_times' = IF UpdatesLastRx(kind)
                                     THEN [ssl_times EXCEPT !.last_rx = now]
                                     ELSE ssl_times
                     /\ incoming_queue' =
                            IF kind = "data"
                            THEN queue_packet(incoming_queue, [len |-> f.plen])
                            ELSE incoming_queue
                     /\ Locals(npc, IF kind = "data" THEN 1 ELSE work_done, inv)
                     /\ quit_reason' =
                            IF kind = "short" THEN "Short packet received"
                            ELSE IF kind \in {"unknown", "unknown_type"}
                                 THEN "Unknown packet received"
                            ELSE quit_reason
                     /\ ret' = IF kind \in {"short", "unknown", "unknown_type"}
                               THEN 1 ELSE ret
                     /\ pc' = npc
    /\ UNCHANGED fn_call
    /\ UNCHANGED <<ssl_fd, dtls_state, current_ssl_pkt, outgoing_queue, now,
                   ip_info, cstp_options, cfg, wire, last_write>>

\* handle_outgoing: one ssl_nonblock_write of the current packet
Write ==
    /\ pc = "write"
    /\ \E r \in WriteResults(WriteCall(current_ssl_pkt).len), ka \in StalledActions :
         LET call == WriteCall(current_ssl_pkt)
             out == WriteOutcome(call.len, r)
             npc == IF out = "error" THEN "reconnect"
                    ELSE IF out = "stalled"
                         THEN (IF StalledNext(ka) = "return" THEN "idle"
                               ELSE StalledNext(ka))
                    ELSE IF out = "short" THEN "idle"
                    ELSE "keepalive"
         IN  /\ (out = "stalled") \/ ka = "KA_NONE"
             /\ last_write' = [pkt |-> call.pkt, off |-> call.off,
                               len |-> call.len, ret |-> r,
                               retried |-> last_write.ret = 0,
                               freed |-> out = "done"
                                         /\ FreesPacket(current_ssl_pkt)]
             /\ Locals(npc, work_done,
                       [inv EXCEPT !.writes = @ + 1,
                                   !.ka = IF out = "stalled" THEN ka ELSE @])
             /\ wire' = IF out = "done" THEN Append(wire, current_ssl_pkt) ELSE wire
             /\ current_ssl_pkt' = IF out = "done" THEN NullPkt ELSE current_ssl_pkt
             /\ quit_reason' = IF out = "short" THEN "Internal error" ELSE quit_reason
             /\ ret' = IF out = "short" THEN 1
                       ELSE IF out = "stalled" /\ StalledNext(ka) = "return"
                            THEN work_done
                       ELSE ret
             /\ pc' = npc
    /\ ssl_times' = [ssl_times EXCEPT !.last_tx = now]
    /\ UNCHANGED fn_call
    /\ UNCHANGED <<ssl_fd, dtls_state, cstp_pkt, frame, outgoing_queue,
                   incoming_queue, now, ip_info, cstp_options, cfg, hist>>

\* the switch on keepalive_action, whose answer is drawn from `answers`,
\* and, when it falls out of the switch, the service of the outgoing queue
Keepalive(answers) ==
    /\ pc = "keepalive"
    /\ \E ka \in answers :
         LET branch == KeepaliveBranch(ka, dtls_state, outgoing_queue)
             serve == dtls_state # "DTLS_CONNECTED" /\ outgoing_queue # <<>>
             npc == IF branch = "reconnect" THEN "reconnect"
                    ELSE IF branch = "dpd" \/ serve THEN "write"
                    ELSE "idle"
         IN  /\ branch = "dpd" => hist.dpd < MaxDpd
             /\ Locals(npc, work_done, [inv EXCEPT !.ka = ka])
             /\ hist' = [hist EXCEPT
                           !.dpd = IF branch = "dpd" THEN @ + 1 ELSE @,
                           !.deq = IF branch = "queue" /\ serve
                                   THEN Append(@, dequeue_packet(outgoing_queue).pkt.id)
                                   ELSE @]
             /\ current_ssl_pkt' =
                    IF branch = "dpd" THEN dpd_pkt
                    ELSE IF branch = "queue" /\ serve
                         THEN StoreHeader(dequeue_packet(outgoing_queue).pkt)
                    ELSE current_ssl_pkt
             /\ outgoing_queue' =
                    IF branch = "queue" /\ serve
                    THEN dequeue_packet(outgoing_queue).rest
                    ELSE outgoing_queue
             /\ pc' = npc
             /\ ret' = IF branch = "queue" /\ ~serve THEN work_done ELSE ret
    /\ UNCHANGED fn_call
    /\ UNCHANGED <<ssl_fd, dtls_state, cstp_pkt, frame, incoming_queue,
                   quit_reason, now, ssl_times, ip_info, cstp_options, cfg,
                   wire, last_write>>

\* do_reconnect
Reconnect ==
    /\ pc = "reconnect"
    /\ \E resp \in LoopResponses :
       \E ub \in UbChoices(resp) :
       \E tun \in TunChoices(resp, ub) :
       \E r \in {ssl_reconnect(V, cfg, resp, NoTcpInfo, ub, tun, now)} :
             /\ ApplyConfig(r.c, r.ret)
             /\ ssl_fd' = r.ssl_fd
             /\ quit_reason' = IF r.c.crashed THEN quit_reason
                               ELSE ReconnectQuit(r.ret, quit_reason)
             /\ ret' = IF r.c.crashed THEN ret ELSE ReconnectReturn(r.ret)
             /\ pc' = IF r.c.crashed THEN "crashed" ELSE "idle"
    /\ work_done' = 0
    /\ inv' = inv
    /\ UNCHANGED fn_call
    /\ UNCHANGED <<dtls_state, cstp_pkt, frame, current_ssl_pkt, outgoing_queue,
                   incoming_queue, now, wire, last_write, hist>>

----------------------------------------------------------------------------
(* The environment between two invocations *)

\* the tun side queues a packet for the tunnel
QueueOutgoing ==
    /\ pc = "idle"
    /\ quit_reason = NoReason
    /\ hist.queued < MaxPkts
    /\ \E n \in PayloadLens :
         outgoing_queue' = queue_packet(outgoing_queue,
                              [id |-> hist.queued + 1, len |-> n, hdr |-> ZeroHdr])
    /\ hist' = [hist EXCEPT !.queued = @ + 1]
    /\ UNCHANGED fn_call
    /\ UNCHANGED <<pc, ssl_fd, dtls_state, cstp_pkt, frame, current_ssl_pkt,
                   incoming_queue, quit_reason, work_done, ret, now, ssl_times,
                   ip_info, cstp_options, cfg, wire, last_write, inv>>

\* the outer loop tears the socket down
Teardown ==
    /\ pc = "idle"
    /\ quit_reason = NoReason
    /\ ssl_fd = "open"
    /\ ssl_fd' = "closed"
    /\ UNCHANGED fn_call
    /\ UNCHANGED <<pc, dtls_state, cstp_pkt, frame, current_ssl_pkt,
                   outgoing_queue, incoming_queue, quit_reason, work_done, ret,
                   now, ssl_times, ip_info, cstp_options, cfg, wire, last_write,
                   inv, hist>>

\* the datagram path comes up or goes down
SetDtls ==
    /\ pc = "idle"
    /\ quit_reason = NoReason
    /\ dtls_state' = IF dtls_state = "DTLS_CONNECTED" THEN "DTLS_NOSECRET"
                      ELSE "DTLS_CONNECTED"
    /\ UNCHANGED fn_call
    /\ UNCHANGED <<pc, ssl_fd, cstp_pkt, frame, current_ssl_pkt, outgoing_queue,
                   incoming_queue, quit_reason, work_done, ret, now, ssl_times,
                   ip_info, cstp_options, cfg, wire, last_write, inv, hist>>

Tick ==
    /\ pc = "idle"
    /\ quit_reason = NoReason
    /\ now < MaxTime
    /\ now' = now + 1
    /\ UNCHANGED fn_call
    /\ UNCHANGED <<pc, ssl_fd, dtls_state, cstp_pkt, frame, current_ssl_pkt,
                   outgoing_queue, incoming_queue, quit_reason, work_done, ret,
                   ssl_times, ip_info, cstp_options, cfg, wire, last_write,
                   inv, hist>>

ReadLoop == Read(LoopReadResults, 0)

KeepaliveLoop == Keepalive(KaActions)

\* while the inbound path is explored the timers ask for no probe
KeepaliveRx == Keepalive({"KA_NONE", "KA_DPD_DEAD", "KA_REKEY"})

ReadTunnel == Read(ReadResults, MaxRx)

Next ==
    \/ Setup
    \/ Enter
    \/ ReadLoop
    \/ Write
    \/ KeepaliveLoop
    \/ Reconnect
    \/ QueueOutgoing
    \/ Teardown
    \/ SetDtls

Spec == Init /\ [][Next]_vars

\* the inbound path: every kind of frame is read, and nothing is sent
NextRx ==
    \/ Setup
    \/ Enter
    \/ ReadTunnel
    \/ KeepaliveRx
    \/ Reconnect
    \/ Tick

SpecRx == Init /\ [][NextRx]_vars

----------------------------------------------------------------------------
(* Properties of the outbound path (Spec) *)

DataWire == SelectSeq(wire, LAMBDA p : p.id >= 1)

\* ids of the data frames completely written, in the order written
WrittenIds == [i \in 1..Len(DataWire) |-> DataWire[i].id]

\* the dequeued data packet not yet completely written, if any
InFlight == IF current_ssl_pkt.id >= 1 THEN <<current_ssl_pkt.id>> ELSE <<>>

QueuedIds == [i \in 1..Len(outgoing_queue) |-> outgoing_queue[i].id]

ShortWritten == 0 < last_write.ret /\ last_write.ret < last_write.len

\* C1: once the write of the current packet returned 0, the packet stays in
\* the slot unchanged; until the next write call nothing reaches the wire
\* and the slot is not touched, whatever happens in between (returns,
\* reconnects, read errors); and the next write call is for that same
\* packet with the same length, len + 16.
C1_StalledWriteRetriedSame ==
    [][last_write.ret = 0 =>
          /\ current_ssl_pkt = last_write.pkt
          /\ pc = "write" =>
                /\ last_write'.pkt = last_write.pkt
                /\ last_write'.len = last_write.len
                /\ last_write'.len = last_write.pkt.len + GPST_HDR_LEN
          /\ pc # "write" =>
                /\ current_ssl_pkt' = current_ssl_pkt
                /\ wire' = wire
                /\ last_write' = last_write]_vars

\* a data packet whose write returned 0 has been written again, in full,
\* while another packet waited in the queue
C1_Witness ==
    /\ last_write.retried
    /\ last_write.pkt.id >= 1
    /\ last_write.ret = last_write.len
    /\ outgoing_queue # <<>>

\* C2 as stated: after a write that returned a positive count smaller than
\* the length asked for, the session goes on with the packet still in the
\* slot, so that a second invocation can write the rest.
C2_ShortWriteResumed ==
    ShortWritten => (quit_reason = NoReason /\ current_ssl_pkt = last_write.pkt)

\* C2: a write that returns a positive count smaller than the length asked
\* for ends the session: quit_reason is "Internal error", the invocation
\* returns 1, nothing more is written, and the packet is neither resumed
\* nor regenerated (it stays in the slot, unwritten).
C2_ShortWriteIsFatal ==
    ShortWritten =>
        /\ quit_reason = "Internal error"
        /\ ret = 1
        /\ pc = "idle"
        /\ current_ssl_pkt = last_write.pkt
        /\ last_write.off = 0
        /\ last_write.pkt \notin {wire[i] : i \in 1..Len(wire)} \ {dpd_pkt}

C2_Witness == ShortWritten /\ last_write.pkt.id >= 1 /\ outgoing_queue # <<>>

\* C3 as stated: an invocation makes at most one write call.
C3_OneWritePerInvocation == inv.writes <= 1

\* C3: packets are handed to the TLS write one at a time: an invocation
\* makes a further write call only after its previous write call returned
\* the full length, so that at most one packet is ever left pending.
C3_NextWriteAfterFullWrite ==
    (pc = "write" /\ inv.writes >= 1) =>
        /\ last_write.ret = last_write.len
        /\ current_ssl_pkt # last_write.pkt \/ current_ssl_pkt = dpd_pkt

\* a second write call is about to be made in one invocation
C3_Witness == pc = "write" /\ inv.writes >= 1 /\ current_ssl_pkt.id >= 1

\* C4: the packets leave the outgoing queue in the order they were queued,
\* the data frames completely written followed by the packet in the slot
\* are exactly the packets dequeued, in that order, and a packet is
\* dequeued only when the slot is empty.
C4_WrittenInDequeueOrder ==
    /\ [](/\ hist.deq = WrittenIds \o InFlight
          /\ hist.deq \o QueuedIds = [i \in 1..hist.queued |-> i])
    /\ [][hist'.deq # hist.deq => current_ssl_pkt = NullPkt]_vars

\* two data frames on the wire with a DPD frame between them, the last
\* write being the retry of a stalled one
C4_Witness ==
    /\ Len(wire) = 3
    /\ WrittenIds = <<1, 2>>
    /\ last_write.retried

\* C5: the DPD sentinel is put into the slot only when the slot is empty,
\* and a DPD frame reaches the wire only when every dequeued data packet
\* has been completely written.
C5_DpdNeverPreempts ==
    [][/\ hist'.dpd # hist.dpd =>
            (current_ssl_pkt = NullPkt /\ current_ssl_pkt' = dpd_pkt)
       /\ wire' = Append(wire, dpd_pkt) => WrittenIds = hist.deq]_vars

\* a DPD frame written right after a data frame, with a packet still queued
C5_Witness ==
    /\ Len(wire) >= 2
    /\ wire[Len(wire)] = dpd_pkt
    /\ wire[Len(wire) - 1].id >= 1
    /\ outgoing_queue # <<>>

OracleReconnects(ka) == ka \in {"KA_REKEY", "KA_DPD_DEAD"}

\* C9: an answer REKEY or DPD_DEAD of the timer oracle, after a stalled
\* write or at the keepalive switch, leads to the reconnect without
\* touching quit_reason; the reconnect is attempted once and ends the
\* invocation: when it succeeds the invocation returns 1 and quit_reason
\* stays unset, when it fails quit_reason is "GPST reconnect failed" and
\* the invocation returns the error.
C9_OracleReconnectsOnce ==
    [][/\ (pc \in {"write", "keepalive"} /\ OracleReconnects(inv'.ka)) =>
            (pc' = "reconnect" /\ quit_reason' = quit_reason
             /\ quit_reason = NoReason)
       /\ (pc = "reconnect" /\ OracleReconnects(inv.ka) /\ pc' # "crashed") =>
            /\ pc' = "idle"
            /\ cfg'.setup = 0 => (ret' = 1 /\ quit_reason' = NoReason)
            /\ cfg'.setup # 0 => (ret' = cfg'.setup
                                  /\ ret' < 0
                                  /\ quit_reason' = "GPST reconnect failed")]_vars

\* the invocation returned 1 after a reconnect that DPD_DEAD asked for when
\* a write had returned 0
C9_Witness ==
    /\ pc = "idle"
    /\ inv.ka = "KA_DPD_DEAD"
    /\ last_write.ret = 0
    /\ ret = 1
    /\ quit_reason = NoReason

\* C20: a DPD or KEEPALIVE timer action that asks for a probe puts the
\* sentinel into the slot; the sentinel is written as it is, 16 bytes made
\* of the magic and twelve zero bytes with no payload, it is never stamped
\* with a data header and never freed, and the slot is empty once its
\* write has completed.
C20_DpdFrameIsSentinel ==
    /\ [](/\ current_ssl_pkt.id = 0 => current_ssl_pkt = dpd_pkt
          /\ \A i \in 1..Len(wire) :
                wire[i].id = 0 =>
                    /\ wire[i].len = 0
                    /\ wire[i].hdr = [magic |-> GPST_MAGIC, ethertype |-> 0,
                                      plen |-> 0, one |-> 0, zero |-> 0])
    /\ [][/\ hist'.dpd # hist.dpd => current_ssl_pkt' = dpd_pkt
          /\ (pc = "write" /\ current_ssl_pkt.id = 0) =>
                /\ last_write'.pkt = dpd_pkt
                /\ last_write'.off = 0
                /\ last_write'.len = GPST_HDR_LEN
                /\ ~last_write'.freed
                /\ last_write'.ret = GPST_HDR_LEN =>
                       (current_ssl_pkt' = NullPkt /\ wire' = Append(wire, dpd_pkt))
                /\ last_write'.ret # GPST_HDR_LEN =>
                       (current_ssl_pkt' = dpd_pkt /\ wire' = wire)]_vars

\* a DPD frame whose first write returned 0 has been written in full
C20_Witness ==
    /\ last_write.pkt = dpd_pkt
    /\ last_write.retried
    /\ last_write.ret = GPST_HDR_LEN
    /\ wire # <<>>
    /\ wire[Len(wire)] = dpd_pkt
    /\ current_ssl_pkt = NullPkt

----------------------------------------------------------------------------
(* Properties of the inbound path (SpecRx) *)

Mismatch(f) ==
    f.len >= GPST_HDR_LEN /\ f.magic = GPST_MAGIC /\ f.len # GPST_HDR_LEN + f.plen

\* C6: the incoming queue holds, in arrival order and once each, exactly
\* the frames read that have the right magic, bytes read = 16 + payload_len
\* and ethertype 0x0800, each with len = payload_len.
C6_IncomingIsValidSubsequence ==
    incoming_queue = [i \in 1..Len(hist.valid) |-> [len |-> hist.valid[i]]]

\* two frames of different payload lengths have been enqueued
C6_Witness ==
    /\ Len(incoming_queue) = 2
    /\ incoming_queue[1].len # incoming_queue[2].len

\* C10: reading a frame with the right magic whose length differs from
\* 16 + payload_len leaves the incoming queue, quit_reason and last_rx as
\* they were, and the loop reads on in the same invocation.
C10_MismatchDiscarded ==
    [][(pc = "read" /\ hist'.rx = hist.rx + 1 /\ Mismatch(frame')) =>
          /\ incoming_queue' = incoming_queue
          /\ quit_reason' = quit_reason
          /\ ssl_times'.last_rx = ssl_times.last_rx
          /\ pc' = "read"
          /\ ret' = ret]_vars

\* a mismatching frame has been read at a time later than the last valid
\* frame, and the loop is reading on
C10_Witness ==
    /\ pc = "read"
    /\ Mismatch(frame)
    /\ ssl_times.last_rx < now
    /\ quit_reason = NoReason

\* a frame with the right magic and length that is a DPD echo or a data packet
WellFormed(f) ==
    /\ f.len >= GPST_HDR_LEN
    /\ f.magic = GPST_MAGIC
    /\ f.len = GPST_HDR_LEN + f.plen
    /\ f.ethertype \in {ETHERTYPE_DPD, ETHERTYPE_IPV4}

\* the last 8 header bytes are not those expected for the ethertype
AnomalousFlags(f) ==
    IF f.ethertype = ETHERTYPE_DPD THEN f.one # 0 \/ f.zero # 0
    ELSE f.one # 1 \/ f.zero # 0

\* C11: reading a well-formed frame whose flag words are not the expected
\* ones does what reading a conforming frame does: a data packet is
\* enqueued, last_rx is updated, quit_reason is left alone and the loop
\* reads on, without fault.
C11_AnomalousFlagsTolerated ==
    [][(pc = "read" /\ hist'.rx = hist.rx + 1 /\ WellFormed(frame')
        /\ AnomalousFlags(frame')) =>
          /\ pc' = "read"
          /\ quit_reason' = quit_reason
          /\ ssl_times'.last_rx = now
          /\ incoming_queue' =
                IF frame'.ethertype = ETHERTYPE_IPV4
                THEN Append(incoming_queue, [len |-> frame'.plen])
                ELSE incoming_queue]_vars

\* a read of 1 to 15 bytes, or of a frame whose magic is wrong
Rejected(f) ==
    \/ 1 <= f.len /\ f.len < GPST_HDR_LEN
    \/ f.len >= GPST_HDR_LEN /\ f.magic # GPST_MAGIC

\* C12: reading 1 to 15 bytes, or a frame of 16 bytes or more with a wrong
\* magic whatever its length field, sets quit_reason and ends the
\* invocation with 1 at once: nothing is enqueued, last_rx stays, nothing
\* is written and no reconnect is made; and once such a quit_reason is set
\* the main loop is not running.
C12_BadFrameTerminates ==
    /\ [](quit_reason \in {"Short packet received", "Unknown packet received"}
            => pc = "idle")
    /\ [][(pc = "read" /\ hist'.rx = hist.rx + 1 /\ Rejected(frame')) =>
             /\ quit_reason' = IF frame'.len < GPST_HDR_LEN
                               THEN "Short packet received"
                               ELSE "Unknown packet received"
             /\ pc' = "idle"
             /\ ret' = 1
             /\ incoming_queue' = incoming_queue
             /\ ssl_times' = ssl_times
             /\ UNCHANGED <<wire, last_write, current_ssl_pkt, outgoing_queue,
                            ssl_fd, cfg, ip_info, cstp_options>>]_vars

\* the session ended on a frame with a wrong magic and a length field that
\* does not match, after a data packet had been delivered
C12_Witness ==
    /\ pc = "idle"
    /\ quit_reason = "Unknown packet received"
    /\ frame.magic # GPST_MAGIC
    /\ frame.len # GPST_HDR_LEN + frame.plen
    /\ incoming_queue # <<>>

----------------------------------------------------------------------------
(* The negotiation alone: gpst_get_config called again and again on one    *)
(* session, with every kind of response                                    *)

ErrorXml(children) == XmlDoc("response", "error", children)

ErrorScript ==
    <<pre_status, "Error", QUOTE, SEMI, NL,
      pre_prompt, "denied", QUOTE, SEMI, NL,
      pre_inputStr, QUOTE, SEMI, NL>>

Timeouts == {<<"1", "8", "0", "0">>, <<"3", "0">>}

Routes == <<El("member", <<"10.1.0.0/16">>), El("member", <<"10.2.0.0/16">>)>>

\* the optional elements that follow the address and the netmask
ConfigTails ==
    {<<El("mtu", <<"0">>)>>, <<El("mtu", <<"1", "4", "0", "0">>)>>,
     <<Group("access-routes", Routes),
       Group("dns", <<El("member", <<"10.0.0.53">>)>>)>>}
    \cup {<<El("mtu", <<"0">>), El("timeout", to)>> : to \in Timeouts}

Optional(name, texts) == {<<>>} \cup {<<El(name, x)>> : x \in texts}

ConfigDocs ==
    {XmlDoc("response", "", a \o m \o tail) :
        a \in Optional("ip-address", {AddrA, AddrB}),
        m \in Optional("netmask", {MaskA, MaskB}),
        tail \in ConfigTails}

Responses ==
    {Resp(0 - EIO, NullDoc), Resp(200, NullDoc),
     Resp(200, JsDoc(ChallengeScript)), Resp(200, JsDoc(ErrorScript)),
     Resp(200, JsDoc(<<"<html>", NL>>)),
     Resp(200, XmlDoc("html", "", <<>>)),
     Resp(200, ErrorXml(<<>>)),
     Resp(200, ErrorXml(<<El("error", InvalidCookie)>>)),
     Resp(200, ErrorXml(<<El("error", <<"GlobalProtect gateway does not exist">>)>>)),
     Resp(200, ErrorXml(<<El("error", <<"busy">>)>>))}
    \cup {Resp(200, d) : d \in ConfigDocs}

TcpInfos ==
    {NoTcpInfo,
     [tcp_info |-> TRUE, pmtu |-> 1500, rcv_mss |-> 1448, snd_mss |-> 1448,
      maxseg |-> TRUE, mss |-> 1448]}

InitConfig ==
    /\ InitLoop
    /\ fn_call = NoCall
    /\ pc = "config"
    /\ now = 0
    /\ \E dpd \in {0, 30} : ssl_times = [InitTimes EXCEPT !.dpd = dpd]
    /\ ip_info = NoIpInfo
    /\ cstp_options = <<>>
    /\ cfg = InitCfg

\* one call of gpst_get_config: the first negotiation when no address is
\* held, a renegotiation afterwards
GetConfig ==
    /\ pc = "config"
    /\ \E resp \in Responses, ti \in TcpInfos, ub \in UbOutcomes :
       \E c \in {gpst_get_config(V, cfg, resp, ti, ub, now)} :
             /\ ApplyConfig(c, cfg.setup)
             /\ pc' = IF c.crashed THEN "crashed" ELSE "config"
    /\ UNCHANGED fn_call
    /\ UNCHANGED <<ssl_fd, dtls_state, cstp_pkt, frame, current_ssl_pkt,
                   outgoing_queue, incoming_queue, quit_reason, work_done, ret,
                   now, wire, last_write, inv, hist>>

NextConfig == GetConfig

SpecConfig == InitConfig /\ [][NextConfig]_vars

----------------------------------------------------------------------------
(* Properties of the negotiation (SpecConfig) *)

\* C7: a call of gpst_get_config that fails leaves the option list and the
\* IpInfo (addr, netmask, mtu, DNS, WINS, domain, split routes) and
\* rekey_method as they were before the call, and does not release the
\* previous option list.
C7_FailureLeavesSessionUnchanged ==
    [][(pc = "config" /\ pc' = "config" /\ cfg'.result # 0) =>
          /\ ip_info' = ip_info
          /\ cstp_options' = cstp_options
          /\ ssl_times'.rekey_method = ssl_times.rekey_method
          /\ cfg'.old_freed => cstp_options = <<>>]_vars

\* C8: a call of gpst_get_config that succeeds while an address is held
\* leaves the pair (addr, netmask) as it was before the call.
C8_ReconnectKeepsAddressPair ==
    [][(pc = "config" /\ pc' = "config" /\ ip_info.addr # Null
        /\ cfg'.result = 0) =>
          /\ ip_info'.addr = ip_info.addr
          /\ ip_info'.netmask = ip_info.netmask]_vars

----------------------------------------------------------------------------
(* Single calls: one function of gpst.c is called once on arguments drawn  *)
(* from bounded sets, and its result is kept                               *)

MaxCookieLen == 4
MaxRoutes == 3

Call(fn, arg) == [fn |-> fn, arg |-> arg, done |-> FALSE, out |-> <<>>]

\* the call returns out
Return(fn, out) ==
    /\ pc = "call"
    /\ fn_call.fn = fn
    /\ ~fn_call.done
    /\ fn_call' = [fn_call EXCEPT !.done = TRUE, !.out = out]
    /\ UNCHANGED <<pc, ssl_fd, dtls_state, cstp_pkt, frame, current_ssl_pkt,
                   outgoing_queue, incoming_queue, quit_reason, work_done, ret,
                   now, ssl_times, ip_info, cstp_options, cfg, wire, last_write,
                   inv, hist>>

\* cookies: keys a, b and ab, with and without '=', empty fields included
CookieChars == {"a", "b", "=", "&"}

Cookies == UNION {[1..n -> CookieChars] : n \in 0..MaxCookieLen}

\* the comma-separated name lists
NameLists == {<<"a">>, <<"b">>, <<"a", ",", "b">>, <<"a", "b">>}

FilterInputs ==
    {[query |-> c, incexc |-> S, include |-> m] :
        c \in Cookies, S \in NameLists, m \in {0, 1}}

\* requested MTU, configured base MTU, what getsockopt reports, peer family
MtuInputs ==
    {[reqmtu |-> r, basemtu |-> b, family |-> fam,
      ti |-> [tcp_info |-> t, pmtu |-> p, rcv_mss |-> rm, snd_mss |-> sm,
              maxseg |-> g, mss |-> m]] :
        r \in {0, 576, 1500}, b \in {0, 1000, 1500},
        fam \in {"AF_INET", "AF_INET6"}, t \in BOOLEAN, p \in {0, 600, 1500},
        rm \in {0, 13, 1448}, sm \in {13, 500, 1448}, g \in BOOLEAN,
        m \in {0, 13, 500, 1460}}

\* script bodies: the three lines, each present or not, well ended or not,
\* with leading space and trailing text
ScriptLine(pre, val, tail) == <<pre>> \o val \o tail

LineEnds == {<<QUOTE, SEMI, NL>>, <<QUOTE, NL>>}

StatusWords == {"Challenge", "Challeng", "Error", "Errors", "Success"}

ScriptBodies ==
    {lead \o ScriptLine(pre_status, <<w>>, e1) \o l2 \o l3 \o trail :
        lead \in {<<>>, <<SP>>}, w \in StatusWords, e1 \in LineEnds,
        l2 \in {<<>>} \cup {ScriptLine(pre_prompt, m, <<QUOTE, SEMI, NL>>) :
                                m \in {<<>>, <<"denied">>}},
        l3 \in {<<>>} \cup {ScriptLine(pre_inputStr, i, e3) :
                                i \in {<<>>, <<"abc">>}, e3 \in LineEnds},
        trail \in {<<>>, <<NL>>, <<"junk">>}}

\* what do_https_request hands to gpst_xml_or_error, and whether the caller
\* passes prompt and inputStr pointers
XmlOrErrorInputs ==
    {[result |-> r.result, doc |-> r.doc, want_prompt |-> w] :
        r \in Responses \cup {Resp(200, JsDoc(b)) : b \in ScriptBodies},
        w \in BOOLEAN}

\* the members of <access-routes>: routes, and elements of another name
RouteTexts == {<<"10.1.0.0/16">>, <<"10.2.0.0/16">>, <<"10.3.0.0/16">>}

RouteMembers == {El("member", r) : r \in RouteTexts} \cup {El("comment", <<"x">>)}

RouteMemberLists == UNION {[1..n -> RouteMembers] : n \in 0..MaxRoutes}

ParseConfigInputs ==
    {[doc |-> XmlDoc(root, "", <<El("ip-address", AddrA), El("netmask", MaskA),
                                 Group("access-routes", ms)>>)] :
        root \in {"response", "html"}, ms \in RouteMemberLists}

\* the answers to the initial getconfig request
GetConfigInputs ==
    {[resp |-> r] : r \in Responses}
    \cup {[resp |-> Resp(200, JsDoc(ChallengeScript \o trail))] :
            trail \in {<<NL>>, <<"junk">>}}

CallParseJavascript ==
    Return("parse_javascript", parse_javascript(fn_call.arg.buf))

CallXmlOrError ==
    Return("gpst_xml_or_error",
           gpst_xml_or_error(V, fn_call.arg.result, fn_call.arg.doc,
                             fn_call.arg.want_prompt, now))

CallParseConfigXml ==
    Return("gpst_parse_config_xml",
           gpst_parse_config_xml(V, fn_call.arg.doc, now))

\* the initial request of gpst_setup: no address is held yet
CallGetConfig ==
    Return("gpst_get_config",
           gpst_get_config(V, cfg, fn_call.arg.resp, NoTcpInfo, "equal", now))

CallFilterOpts ==
    Return("filter_opts",
           filter_opts(<<>>, fn_call.arg.query, fn_call.arg.incexc,
                       fn_call.arg.include))

CallCalculateMtu ==
    Return("calculate_mtu",
           calculate_mtu(fn_call.arg.reqmtu, fn_call.arg.basemtu, fn_call.arg.ti,
                         fn_call.arg.family))

InitCalls ==
    /\ InitLoop
    /\ pc = "call"
    /\ now = 0
    /\ ssl_times = InitTimes
    /\ ip_info = NoIpInfo
    /\ cstp_options = <<>>
    /\ cfg = InitCfg
    /\ \/ \E a \in FilterInputs : fn_call = Call("filter_opts", a)
       \/ \E a \in MtuInputs : fn_call = Call("calculate_mtu", a)
       \/ \E b \in ScriptBodies : fn_call = Call("parse_javascript", [buf |-> b])
       \/ \E a \in XmlOrErrorInputs : fn_call = Call("gpst_xml_or_error", a)
       \/ \E a \in ParseConfigInputs : fn_call = Call("gpst_parse_config_xml", a)
       \/ \E a \in GetConfigInputs : fn_call = Call("gpst_get_config", a)

NextCalls ==
    \/ CallFilterOpts
    \/ CallCalculateMtu
    \/ CallParseJavascript
    \/ CallXmlOrError
    \/ CallParseConfigXml
    \/ CallGetConfig

SpecCalls == InitCalls /\ [][NextCalls]_vars

----------------------------------------------------------------------------
(* Properties of single calls (SpecCalls) *)

Returned(fn) == fn_call.fn = fn /\ fn_call.done

\* the '&'-separated fields of a string, as filter_opts walks them
RECURSIVE FieldsFrom(_, _)
FieldsFrom(s, f) ==
    IF f > Len(s) THEN <<>>
    ELSE LET endf == strchr_or_end(s, f, "&")
         IN  <<SubSeq(s, f, endf - 1)>>
                 \o FieldsFrom(s, IF endf <= Len(s) THEN endf + 1 ELSE endf)

Fields(s) == FieldsFrom(s, 1)

Count(seq, x) == Cardinality({i \in 1..Len(seq) : seq[i] = x})

\* C17: filtering the output of filter_opts again, with the same names and
\* mode and into an empty buffer, gives the same string.
C17_FilterIdempotent ==
    Returned("filter_opts") =>
        filter_opts(<<>>, fn_call.out, fn_call.arg.incexc, fn_call.arg.include)
            = fn_call.out

\* C18: every field of the cookie is in exactly one of the two outputs:
\* the fields of the include output and those of the exclude output make
\* up the multiset of the cookie's fields.
C18_FilterPartitions ==
    Returned("filter_opts") =>
        LET a == fn_call.arg
            inc == Fields(filter_opts(<<>>, a.query, a.incexc, 1))
            exc == Fields(filter_opts(<<>>, a.query, a.incexc, 0))
            all == Fields(a.query)
        IN  \A i \in 1..Len(all) :
                Count(all, all[i]) = Count(inc, all[i]) + Count(exc, all[i])

IpHeader(family) ==
    IF family = "AF_INET6" THEN IPV6_HEADER_SIZE ELSE IPV4_HEADER_SIZE

\* C19 as stated: whatever MTU is requested, calculate_mtu returns at least
\* 1280 - (78 + 8 + IP header size).
C19_MtuAtLeastFloor ==
    Returned("calculate_mtu") =>
        fn_call.out >= MIN_BASE_MTU - (ESP_OVERHEAD + UDP_HEADER_SIZE
                                       + IpHeader(fn_call.arg.family))

\* C19: when no MTU is requested calculate_mtu returns at least
\* 1280 - (78 + 8 + IP header size); a requested MTU is returned as it is.
C19_MtuFloorUnlessRequested ==
    Returned("calculate_mtu") =>
        IF fn_call.arg.reqmtu = 0
        THEN fn_call.out >= MIN_BASE_MTU - (ESP_OVERHEAD + UDP_HEADER_SIZE
                                            + IpHeader(fn_call.arg.family))
        ELSE fn_call.out = fn_call.arg.reqmtu

\* no MTU requested, IPv6 peer, and the OS reports an MSS below the floor:
\* the result is the floor itself
C19_Witness ==
    /\ Returned("calculate_mtu")
    /\ fn_call.arg.reqmtu = 0
    /\ fn_call.arg.basemtu = 0
    /\ fn_call.arg.ti.tcp_info
    /\ fn_call.arg.ti.pmtu = 0
    /\ fn_call.arg.ti.snd_mss = 500
    /\ fn_call.arg.family = "AF_INET6"
    /\ fn_call.out = MIN_BASE_MTU - (ESP_OVERHEAD + UDP_HEADER_SIZE
                                     + IPV6_HEADER_SIZE)

RECURSIVE Reverse(_)
Reverse(seq) == IF seq = <<>> THEN <<>> ELSE Reverse(Tail(seq)) \o <<Head(seq)>>

\* the texts of the <member> elements, in document order
RECURSIVE MemberTexts(_)
MemberTexts(members) ==
    IF members = <<>> THEN <<>>
    ELSE (IF Head(members).name = "member" THEN <<Head(members).text>> ELSE <<>>)
             \o MemberTexts(Tail(members))

\* the members m1..mn of the <access-routes> elements of a response
RECURSIVE RoutesOf(_)
RoutesOf(children) ==
    IF children = <<>> THEN <<>>
    ELSE (IF Head(children).name = "access-routes"
          THEN MemberTexts(Head(children).members) ELSE <<>>)
             \o RoutesOf(Tail(children))

Parsed == Returned("gpst_parse_config_xml") /\ fn_call.out.result = 0

\* C16 as stated: with two or more members, the split-include list read
\* from its head is m1, m2, ..., mn.
C16_RoutesInDocumentOrder ==
    (Parsed /\ Len(RoutesOf(fn_call.arg.doc.children)) >= 2) =>
        fn_call.out.v.ip_info.split_includes = RoutesOf(fn_call.arg.doc.children)

\* C16: the split-include list read from its head is the members in
\* reverse document order, mn, ..., m2, m1.
C16_RoutesInReverseOrder ==
    Parsed =>
        fn_call.out.v.ip_info.split_includes
            = Reverse(RoutesOf(fn_call.arg.doc.children))

\* three different routes came out last first
C16_Witness ==
    /\ Parsed
    /\ RoutesOf(fn_call.arg.doc.children)
         = <<<<"10.1.0.0/16">>, <<"10.2.0.0/16">>, <<"10.3.0.0/16">>>>
    /\ fn_call.out.v.ip_info.split_includes
         = <<<<"10.3.0.0/16">>, <<"10.2.0.0/16">>, <<"10.1.0.0/16">>>>

\* C15: a body of only the respStatus line with value Error and the respMsg
\* line is accepted with status Error (1) and the message as the prompt.
C15_ErrorNeedsNoInputStr ==
    \A m \in {<<>>, <<"denied">>} :
        (/\ Returned("parse_javascript")
         /\ fn_call.arg.buf = ScriptLine(pre_status, <<"Error">>, <<QUOTE, SEMI, NL>>)
                                \o ScriptLine(pre_prompt, m, <<QUOTE, SEMI, NL>>))
            => fn_call.out.status = 1 /\ fn_call.out.prompt = m

\* C14: a script accepted with status Error gives a result that is neither
\* success (0) nor the challenge result (-EAGAIN); a rejected script gives
\* -EINVAL; and the result is 0 only when the XML callback ran.
C14_ScriptOutcomes ==
    Returned("gpst_xml_or_error") =>
        /\ (fn_call.arg.result >= 0 /\ fn_call.arg.doc.fmt = "text") =>
              LET js == parse_javascript(fn_call.arg.doc.js)
              IN  /\ js.status = 1 => fn_call.out.result \notin {0, 0 - EAGAIN}
                  /\ js.status = 0 - EINVAL => fn_call.out.result = 0 - EINVAL
        /\ fn_call.out.result = 0 => fn_call.out.parsed

\* C13: a well-formed Challenge script in answer to the initial request
\* gives gpst_get_config a result that is neither success (0) nor the
\* result of a parse or no-address failure (-EINVAL).
C13_ChallengeSurfaced ==
    (/\ Returned("gpst_get_config")
     /\ fn_call.arg.resp.result >= 0
     /\ fn_call.arg.resp.doc.fmt = "text"
     /\ parse_javascript(fn_call.arg.resp.doc.js).status = 0)
        => fn_call.out.result \notin {0, 0 - EINVAL}

----------------------------------------------------------------------------
(* Unknown ethertype (SpecRx) *)

\* right magic, length that matches the header, ethertype neither 0 nor 0x0800
UnknownEthertype(f) ==
    /\ f.len >= GPST_HDR_LEN
    /\ f.magic = GPST_MAGIC
    /\ f.len = GPST_HDR_LEN + f.plen
    /\ f.ethertype \notin {ETHERTYPE_DPD, ETHERTYPE_IPV4}

\* C21: reading a frame with the right magic and a matching length but an
\* ethertype other than 0x0000 and 0x0800 sets quit_reason and ends the
\* invocation with 1; the frame is not enqueued, and last_rx has been set to
\* the time of that read.
C21_UnknownEthertypeFatal ==
    [][(pc = "read" /\ hist'.rx = hist.rx + 1 /\ UnknownEthertype(frame')) =>
          /\ quit_reason' = "Unknown packet received"
          /\ pc' = "idle"
          /\ ret' = 1
          /\ incoming_queue' = incoming_queue
          /\ ssl_times'.last_rx = now
          /\ UNCHANGED <<wire, current_ssl_pkt, outgoing_queue, ssl_fd>>]_vars

\* such a frame ended the loop at time 1 and last_rx moved from 0 to 1
C21_Witness ==
    /\ pc = "idle"
    /\ UnknownEthertype(frame)
    /\ quit_reason = "Unknown packet received"
    /\ ret = 1
    /\ now = 1
    /\ ssl_times.last_rx = 1

----------------------------------------------------------------------------
(* Liveness of the outbound path (SpecLive) *)

\* the outer loop keeps calling gpst_mainloop, and a call that has started
\* runs on through its read loop, its write and its keepalive switch; how
\* long gpst_setup and ssl_reconnect take is up to the network
Fairness ==
    /\ WF_vars(Enter)
    /\ WF_vars(ReadLoop)
    /\ WF_vars(Write)
    /\ WF_vars(KeepaliveLoop)

\* the outbound path with no DTLS path ever active and the socket left to
\* the main loop
NextLive ==
    \/ Setup
    \/ Enter
    \/ ReadLoop
    \/ Write
    \/ KeepaliveLoop
    \/ Reconnect
    \/ QueueOutgoing

SpecLive == Init /\ [][NextLive]_vars /\ Fairness

NoDtls == dtls_state # "DTLS_CONNECTED"

\* no fatal frame, no failed reconnect or setup, no fault
NoFatalFrameOrReconnect ==
    /\ quit_reason \notin {"Short packet received", "Unknown packet received",
                           "GPST reconnect failed"}
    /\ pc \notin {"crashed", "failed"}

\* nothing at all ends the session
NothingFatal == quit_reason = NoReason /\ pc \notin {"crashed", "failed"}

\* the last answer of the TLS write was 0
WriteStalled == last_write.ret = 0

\* every queued packet is eventually written in full, and a filled
\* current-packet slot is eventually empty again
AllWritten ==
    /\ \A id \in 1..MaxPkts :
           (id \in {QueuedIds[i] : i \in 1..Len(QueuedIds)})
               ~> (id \in {WrittenIds[i] : i \in 1..Len(WrittenIds)})
    /\ (current_ssl_pkt # NullPkt) ~> (current_ssl_pkt = NullPkt)

\* the session never ends: an ended session stays ended, so this says that
\* nothing fatal ever happens
NeverFatal == []<>NothingFatal

\* C22 as stated: gpst_mainloop invoked again and again with no DTLS path
\* (SpecLive), no fatal frame and no failed reconnect, the write not
\* returning 0 forever (and, beyond what is stated, reconnects not recurring
\* forever): every queued packet is eventually written in full and the slot
\* is eventually empty again.
C22_QueuedEventuallyWritten ==
    ([]NoFatalFrameOrReconnect /\ []<>(~WriteStalled)
        /\ <>[](pc # "reconnect"))
        => AllWritten

\* C22: the same holds when, in addition, no write returns a short count
\* (nothing at all sets quit_reason) and reconnects do not recur forever.
C22_WrittenUnlessShortWrite ==
    (NeverFatal /\ []<>(~WriteStalled) /\ <>[](pc # "reconnect"))
        => AllWritten

\* both packets were written in full, one of them after a write that
\* returned 0, and the slot is empty
C22_Witness ==
    /\ NoDtls
    /\ NothingFatal
    /\ Len(WrittenIds) = 2
    /\ last_write.retried
    /\ last_write.ret = last_write.len
    /\ current_ssl_pkt = NullPkt
    /\ outgoing_queue = <<>>

----------------------------------------------------------------------------
(* Timers after a negotiation (SpecCalls) *)

HasTimeout(doc) == \E i \in 1..Len(doc.children) : doc.children[i].name = "timeout"

Negotiated == Returned("gpst_get_config") /\ fn_call.out.result = 0

\* keepalive = dpd > 0, and rekey_method is REKEY_TUNNEL exactly when the
\* response has a <timeout>
TimersSet ==
    Negotiated =>
        LET t == fn_call.out.v.ssl_times
        IN  /\ t.keepalive = t.dpd
            /\ t.dpd > 0
            /\ t.rekey_method = "REKEY_TUNNEL" <=> HasTimeout(fn_call.arg.resp.doc)

\* C23: after a successful negotiation that started with dpd unset,
\* keepalive = dpd > 0, rekey_method is REKEY_TUNNEL exactly when the
\* response had a <timeout>, and with REKEY_TUNNEL the rekey interval is
\* strictly positive.
C23_RekeyIntervalPositive ==
    /\ TimersSet
    /\ Negotiated =>
          (fn_call.out.v.ssl_times.rekey_method = "REKEY_TUNNEL"
              => fn_call.out.v.ssl_times.rekey > 0)

====
